---- MODULE Spec2Model ----
(***************************************************************************)
(* Model of contract_utils.py: AsyncBatchProcessor (the batch executor),   *)
(* ETHContractFunctions (the remote-call proxy) and Contract (the pair     *)
(* discovery pipeline and its result table).                               *)
(*                                                                         *)
(* Spec        one run of Contract.async_get_pairs                         *)
(* SpecSingle  one run of Contract.get_pair_by_index with arbitrary        *)
(*             factory_contract / factory_address arguments                *)
(* SpecProxy   repeated invocations of one ETHContractFunctions handle     *)
(*                                                                         *)
(* The asyncio event loop and the web3 client are not part of the source:  *)
(* the order in which ready coroutines are resumed and the outcome of      *)
(* every client call are nondeterministic choices.                         *)
(***************************************************************************)
EXTENDS Integers, Sequences, FiniteSets, TLC

(* ------------------------------ bounds -------------------------------- *)
MaxPairs == 3
MaxLimit == 2
MaxFaults == 1
MaxTrials == 3
MaxCallers == 2     \* callers sharing one executor
MaxSubmits == 2     \* calls each of them makes
MaxSeqCalls == 4    \* calls of a caller that has the executor to itself

VARIABLES
    limit, func, args, kwargs,          \* AsyncBatchProcessor fields
    pc, phase, pairs_length, i,         \* async_get_pairs: position and locals
    results,                            \* value returned by add_task / process_tasks
    result_df,                          \* Contract.result_df (rows in order)
    tasks,                              \* coroutines handed to asyncio.gather
    npairs,                             \* the factory's real pair count (chain)
    ncalls,                             \* calls that reached the call client
    faults,                             \* log: client calls that did not succeed
    done_order,                         \* log: completion order within a flush
    fetched,                            \* log: record returned for each index
    flushes,                            \* log: every process_tasks call (queue size, caller)
    world, trial, last,                 \* SpecProxy: client behaviour, trials, last call
    thr,                                \* SpecThreads/SpecSeq/SpecCoop: the callers of the executor
    started,                            \* log: tasks handed to gather, as they were called
    overlap,                            \* log: two callers were inside the executor at once
    sched                               \* how the callers are scheduled

vars == <<limit, func, args, kwargs, pc, phase, pairs_length, i, results,
          result_df, tasks, npairs, ncalls, faults, done_order, fetched,
          flushes, world, trial, last, thr, started, overlap, sched>>

execVars  == <<limit, func, args, kwargs>>
proxyVars == <<world, trial, last>>
extVars   == <<thr, started, overlap, sched>>

(* ------------------------------ values -------------------------------- *)
\* Every value that travels through the program (addresses, names, counts,
\* the sentinel, Python's None) is a record of one shape, so that any two
\* of them can be compared.
Val(k, n, s) == [kind |-> k, index |-> n, slot |-> s]

NotFound == Val("NotFound", -1, 0)
None     == Val("None", -1, 0)
Pending  == Val("pending", -1, 0)
Raised   == Val("raised", -1, 0)

FactoryAddress == Val("factory", 0, 0)

\* ETHContractFunctions(w3, address, abi): a handle bound to an address.
ETHContractFunctions(address, abi) == [address |-> address, abi |-> abi]
NoHandle == [address |-> None, abi |-> "None"]

\* Return values of add_task / process_tasks: None or a list.
NoneResult    == [is_none |-> TRUE, items |-> <<>>]
ListResult(s) == [is_none |-> FALSE, items |-> s]
Truthy(r)     == ~r.is_none /\ Len(r.items) > 0

Outcomes == {"ok", "Web3Exception", "Exception"}

\* What the chain answers when the call goes through.
RemoteValue(address, function_name, arg, n) ==
    CASE function_name = "allPairsLength" -> Val("uint", n, 0)
      [] function_name = "allPairs"       -> Val("pair", arg, 0)
      [] function_name = "token0"         -> Val("token", address.index, 0)
      [] function_name = "token1"         -> Val("token", address.index, 1)
      [] function_name = "name"           ->
            Val(IF address.kind = "pair" THEN "pair_name"
                ELSE IF address.kind = "token" THEN "token_name"
                ELSE "name", address.index, address.slot)
      [] OTHER                            -> None

(* -------------------------- ETHContractFunctions ---------------------- *)
\* A mutant: the except clause is missing, the failure propagates.
CallNoExcept(outcome, value) ==
    IF outcome = "ok" THEN [raised |-> FALSE, value |-> value]
    ELSE [raised |-> TRUE, value |-> None]

\* A mutant: the sentinel is returned whatever the client did.
CallAlwaysSentinel(outcome, value) ==
    IF outcome = "Exception" THEN [raised |-> TRUE, value |-> None]
    ELSE [raised |-> FALSE, value |-> NotFound]

\* __call__: the client's value on success, "NotFound" on Web3Exception;
\* any other exception is not caught.
Call(outcome, value) ==
    IF outcome = "ok" THEN [raised |-> FALSE, value |-> value]
    ELSE IF outcome = "Web3Exception" THEN [raised |-> FALSE, value |-> NotFound]
    ELSE [raised |-> TRUE, value |-> None]

\* _get_abi: the functions each interface schema declares.
Abi(contract_type) ==
    CASE contract_type = "pair_factory" -> {"getPair", "allPairs", "allPairsLength"}
      [] contract_type = "pair"         -> {"token0", "token1", "name"}
      [] contract_type = "token"        -> {"name"}
      [] OTHER                          -> {}

\* line 43: functions.__dict__[function_name] raises KeyError, which is not
\* caught, for a name the schema does not declare; else the call is made.
Invoke(abi, function_name, outcome, value) ==
    IF function_name \notin Abi(abi) THEN [raised |-> TRUE, value |-> None]
    ELSE Call(outcome, value)

(* ------------------------------ records ------------------------------- *)
PairRecord(pa, pn, t0a, t0n, t1a, t1n) ==
    [pair_address |-> pa, pair_name |-> pn,
     token0_address |-> t0a, token0_name |-> t0n,
     token1_address |-> t1a, token1_name |-> t1n]

NoRecord == PairRecord(None, None, None, None, None, None)

\* to_dataframe: one row per result, the six columns taken field by field.
to_dataframe(rs) ==
    [k \in 1..Len(rs) |->
        PairRecord(rs[k].pair_address, rs[k].pair_name,
                   rs[k].token0_address, rs[k].token0_name,
                   rs[k].token1_address, rs[k].token1_name)]

\* A mutant: the new batch is put in front of the rows already there.
PrependDf(df, rs) == to_dataframe(rs) \o df

\* result_df._append(to_dataframe(results), ignore_index=True)
AppendDf(df, rs) == df \o to_dataframe(rs)

(* ------------------------------ coroutines ---------------------------- *)
\* func[i](*args[i], **kwargs[i]): a coroutine object, not yet started.
NewTask(f, a, kw) ==
    [fn |-> f, fargs |-> a, fkwargs |-> kw, pc |-> "new", err |-> "",
     pair_address |-> None,
     p2 |-> <<Pending, Pending, Pending>>,
     p3 |-> <<Pending, Pending>>,
     result |-> NoRecord]

\* Binding of async_get_pair_by_index's parameters.
FactoryContractOf(tk) == IF Len(tk.fargs) >= 1 THEN tk.fargs[1] ELSE NoHandle
UintOf(tk)            == tk.fargs[2]
FactoryAddressOf(tk)  == IF Len(tk.fargs) >= 3 THEN tk.fargs[3] ELSE None

\* A mutant: the argument check is missing.
ConfigNeverMissing(fc, fa) == FALSE

\* line 148: factory_contract is None and factory_address is None
ConfigMissing(fc, fa) == fc = NoHandle /\ fa = None

\* web3's contract constructor is outside the source: given an address that
\* is no address (the sentinel, None) it may raise or hand out a handle.
BindOutcomes(address) ==
    IF address.kind \in {"NotFound", "None"} THEN {"ok", "raise"} ELSE {"ok"}

\* A value that will never arrive: the call does not return.
Hung == Val("hung", -1, 0)

\* A mutant: the first call to return ends the wait (FIRST_COMPLETED).
AnyReturned(ps) == \E k \in 1..Len(ps) : ps[k].kind \notin {"pending", "hung"}

\* lines 131 and 156: the inner gather returns once all its calls have returned.
AllReturned(ps) == \A k \in 1..Len(ps) : ps[k].kind \notin {"pending", "hung"}

PairFns == <<"name", "token0", "token1">>
PairSites == <<"name", "token0", "token1">>
TokenSites == <<"token0_name", "token1_name">>

\* Faults are injected while fewer than MaxFaults were.
CanFail(o) == o = "ok" \/ Cardinality(faults) < MaxFaults
Log(o, u, site) ==
    IF o = "ok" THEN faults
    ELSE faults \cup {[uint |-> u, site |-> site, kind |-> o]}

Running == pc \in {"gather", "single"}

\* lines 148-149: raise ValueError before anything else.
TaskConfigError(t) ==
    /\ Running
    /\ t \in 1..Len(tasks)
    /\ tasks[t].pc = "new"
    /\ ConfigMissing(FactoryContractOf(tasks[t]), FactoryAddressOf(tasks[t]))
    /\ tasks' = [tasks EXCEPT ![t].pc = "raised", ![t].err = "ValueError"]
    /\ UNCHANGED <<execVars, pc, phase, pairs_length, i, results, result_df,
                   npairs, ncalls, faults, done_order, fetched, flushes, proxyVars, extVars>>

\* lines 151-155 and 130-132: allPairs(uint), then async_get_pair_info binds
\* the pair handle and hands name/token0/token1 to asyncio.gather.
TaskStart(t, o, b) ==
    /\ Running
    /\ t \in 1..Len(tasks)
    /\ tasks[t].pc = "new"
    /\ ~ConfigMissing(FactoryContractOf(tasks[t]), FactoryAddressOf(tasks[t]))
    /\ CanFail(o)
    /\ LET tk == tasks[t]
           fc == FactoryContractOf(tk)
           h  == IF fc = NoHandle
                 THEN ETHContractFunctions(FactoryAddressOf(tk), "pair_factory")
                 ELSE fc
           r  == Invoke(h.abi, "allPairs", o,
                        RemoteValue(h.address, "allPairs", UintOf(tk), npairs))
       IN /\ b \in (IF r.raised THEN {"ok"} ELSE BindOutcomes(r.value))
          /\ tasks' = [tasks EXCEPT
                 ![t].pair_address = r.value,
                 ![t].pc = IF r.raised \/ b = "raise" THEN "raised" ELSE "pair_info",
                 ![t].err = IF r.raised THEN "Exception"
                            ELSE IF b = "raise" THEN "BindError" ELSE ""]
          /\ faults' = Log(o, UintOf(tk), "allPairs")
    /\ ncalls' = ncalls + 1
    /\ UNCHANGED <<execVars, pc, phase, pairs_length, i, results, result_df,
                   npairs, done_order, fetched, flushes, proxyVars, extVars>>

\* line 131-132: one of the three gathered calls on the pair handle runs.
PairInfoCall(t, k, o) ==
    /\ Running
    /\ t \in 1..Len(tasks)
    /\ tasks[t].pc = "pair_info"
    /\ k \in 1..3
    /\ tasks[t].p2[k] = Pending
    /\ CanFail(o)
    /\ LET tk == tasks[t]
           r  == Invoke("pair", PairFns[k], o,
                        RemoteValue(tk.pair_address, PairFns[k], None, npairs))
       IN /\ tasks' = [tasks EXCEPT ![t].p2[k] = IF r.raised THEN Raised ELSE r.value]
          /\ faults' = Log(o, UintOf(tk), PairSites[k])
    /\ ncalls' = ncalls + 1
    /\ UNCHANGED <<execVars, pc, phase, pairs_length, i, results, result_df,
                   npairs, done_order, fetched, flushes, proxyVars, extVars>>

\* lines 131-137 and 156-157: the gather of three returns (or raises the
\* first exception); the two token-name coroutines are handed to gather.
PairInfoReturn(t) ==
    /\ Running
    /\ t \in 1..Len(tasks)
    /\ tasks[t].pc = "pair_info"
    /\ LET tk == tasks[t]
           failed == \E k \in 1..3 : tk.p2[k] = Raised
       IN /\ failed \/ AllReturned(tk.p2)
          /\ tasks' = [tasks EXCEPT
                 ![t].pc = IF failed THEN "raised" ELSE "token_info",
                 ![t].err = IF failed THEN "Exception" ELSE ""]
    /\ UNCHANGED <<execVars, pc, phase, pairs_length, i, results, result_df,
                   npairs, ncalls, faults, done_order, fetched, flushes, proxyVars, extVars>>

\* lines 122-124: async_get_token_info binds a token handle and calls name().
TokenInfoCall(t, k, o, b) ==
    /\ Running
    /\ t \in 1..Len(tasks)
    /\ tasks[t].pc = "token_info"
    /\ k \in 1..2
    /\ tasks[t].p3[k] = Pending
    /\ CanFail(o)
    /\ LET tk == tasks[t]
           address == tk.p2[k + 1]
           r == Invoke("token", "name", o, RemoteValue(address, "name", None, npairs))
       IN /\ b \in BindOutcomes(address)
          /\ b = "raise" => o = "ok"
          /\ tasks' = [tasks EXCEPT
                 ![t].p3[k] = IF b = "raise" \/ r.raised THEN Raised ELSE r.value]
          /\ faults' = IF b = "raise" THEN faults ELSE Log(o, UintOf(tk), TokenSites[k])
          /\ ncalls' = IF b = "raise" THEN ncalls ELSE ncalls + 1
    /\ UNCHANGED <<execVars, pc, phase, pairs_length, i, results, result_df,
                   npairs, done_order, fetched, flushes, proxyVars, extVars>>

\* A mutant: the two token names change places.
BuildRecordSwapped(tk) ==
    PairRecord(tk.pair_address, tk.p2[1], tk.p2[2], tk.p3[2], tk.p2[3], tk.p3[1])

\* lines 158-165: the six fields of the record.
BuildRecord(tk) ==
    PairRecord(tk.pair_address, tk.p2[1], tk.p2[2], tk.p3[1], tk.p2[3], tk.p3[2])

\* lines 156-165: the gather of two returns (or raises); the record is built.
TaskReturn(t) ==
    /\ Running
    /\ t \in 1..Len(tasks)
    /\ tasks[t].pc = "token_info"
    /\ LET tk == tasks[t]
           failed == \E k \in 1..2 : tk.p3[k] = Raised
           rec == BuildRecord(tk)
       IN /\ failed \/ AllReturned(tk.p3)
          /\ tasks' = [tasks EXCEPT
                 ![t].pc = IF failed THEN "raised" ELSE "done",
                 ![t].err = IF failed THEN "Exception" ELSE "",
                 ![t].result = IF failed THEN NoRecord ELSE rec]
          /\ done_order' = IF failed THEN done_order ELSE Append(done_order, t)
          /\ fetched' = IF failed THEN fetched
                        ELSE fetched \cup {[uint |-> UintOf(tk), rec |-> rec]}
    /\ UNCHANGED <<execVars, pc, phase, pairs_length, i, results, result_df,
                   npairs, ncalls, faults, flushes, proxyVars, extVars>>

(* -------------------------- AsyncBatchProcessor ----------------------- *)
\* A mutant: the flush waits for one task more than the limit.
ShouldFlushLate(n, l) == n > l

\* line 20: len(self.func) >= self.limit
ShouldFlush(n, l) == n >= l

\* A mutant: results in the order in which the tasks completed.
GatherCompletionOrder(ts, order) ==
    [k \in 1..Len(ts) |-> ts[order[k]].result]

\* line 34: asyncio.gather(*tasks) returns the results in the order of its
\* arguments, whatever the order of completion.
Gather(ts, order) == [k \in 1..Len(ts) |-> ts[k].result]

\* A mutant: gather returns as soon as one task has returned.
GatherAnyDone(ts) == \E t \in 1..Len(ts) : ts[t].pc = "done"

\* A mutant: gather waits for every task and returns whatever there is
\* (as with return_exceptions=True).
GatherDoneOrRaised(ts) == \A t \in 1..Len(ts) : ts[t].pc \in {"done", "raised"}

\* line 34: gather returns once all its tasks have returned.
GatherDone(ts) == \A t \in 1..Len(ts) : ts[t].pc = "done"

\* A mutant: an empty list instead of None.
EmptyQueueEmptyList == ListResult(<<>>)

\* lines 24-25: a bare return, that is None.
EmptyQueueResult == NoneResult

\* lines 16-18: the task is appended to the three parallel lists.
AddTaskAppend ==
    /\ pc = "add_task"
    /\ func' = Append(func, "async_get_pair_by_index")
    /\ args' = Append(args, <<ETHContractFunctions(FactoryAddress, "pair_factory"), i>>)
    /\ kwargs' = Append(kwargs, <<>>)
    /\ pc' = "add_check"
    /\ UNCHANGED <<limit, phase, pairs_length, i, results, result_df, tasks,
                   npairs, ncalls, faults, done_order, fetched, flushes, proxyVars, extVars>>

\* lines 20-21: flush when the limit is reached, else return None.
AddTaskCheck ==
    /\ pc = "add_check"
    /\ IF ShouldFlush(Len(func), limit)
       THEN pc' = "process" /\ UNCHANGED results
       ELSE pc' = "returned" /\ results' = NoneResult
    /\ UNCHANGED <<execVars, phase, pairs_length, i, result_df, tasks,
                   npairs, ncalls, faults, done_order, fetched, flushes, proxyVars, extVars>>

\* lines 24-25: nothing queued.
ProcessTasksEmpty ==
    /\ pc = "process"
    /\ Len(func) = 0
    /\ results' = EmptyQueueResult
    /\ flushes' = Append(flushes, [size |-> 0, phase |-> phase])
    /\ pc' = "returned"
    /\ UNCHANGED <<execVars, phase, pairs_length, i, result_df, tasks,
                   npairs, ncalls, faults, done_order, fetched, proxyVars, extVars>>

\* lines 27-34: the coroutines are created in queue order, the queue is
\* cleared and the coroutines are handed to asyncio.gather.
ProcessTasksStart ==
    /\ pc = "process"
    /\ Len(func) > 0
    /\ tasks' = [k \in 1..Len(func) |-> NewTask(func[k], args[k], kwargs[k])]
    /\ func' = <<>>
    /\ args' = <<>>
    /\ kwargs' = <<>>
    /\ done_order' = <<>>
    /\ flushes' = Append(flushes, [size |-> Len(func), phase |-> phase])
    /\ pc' = "gather"
    /\ UNCHANGED <<limit, phase, pairs_length, i, results, result_df,
                   npairs, ncalls, faults, fetched, proxyVars, extVars>>

\* line 34: every task has returned.
GatherReturn ==
    /\ pc = "gather"
    /\ GatherDone(tasks)
    /\ results' = ListResult(Gather(tasks, done_order))
    /\ pc' = "returned"
    /\ UNCHANGED <<execVars, phase, pairs_length, i, result_df, tasks,
                   npairs, ncalls, faults, done_order, fetched, flushes, proxyVars, extVars>>

\* line 34: gather raises the first exception of a task; it propagates out
\* of process_tasks, add_task and async_get_pairs.
GatherRaise ==
    /\ pc = "gather"
    /\ ~GatherDone(tasks)
    /\ \E t \in 1..Len(tasks) : tasks[t].pc = "raised"
    /\ pc' = "Failed"
    /\ UNCHANGED <<execVars, phase, pairs_length, i, results, result_df, tasks,
                   npairs, ncalls, faults, done_order, fetched, flushes, proxyVars, extVars>>

(* ------------------------- Contract.async_get_pairs ------------------- *)
\* A mutant: the loop runs one index too far.
RangeInclusive(j, n) == j <= n

\* line 178: for i in range(pairs_length)
RangeHas(j, n) == j < n

\* A mutant: the loop skips every other index.
NextIndexSkip(j) == j + 2

\* line 178: range() hands out the indices one by one.
NextIndex(j) == j + 1

\* lines 175-177: the executor and the factory handle are created, and
\* allPairsLength() is called through the handle.
AllPairsLength(o) ==
    /\ pc = "start"
    /\ CanFail(o)
    /\ LET r == Invoke("pair_factory", "allPairsLength", o,
                       RemoteValue(FactoryAddress, "allPairsLength", None, npairs))
       IN /\ pairs_length' = r.value
          /\ pc' = IF r.raised THEN "Failed" ELSE "for"
    /\ faults' = Log(o, -1, "allPairsLength")
    /\ ncalls' = ncalls + 1
    /\ UNCHANGED <<execVars, phase, i, results, result_df, tasks, npairs,
                   done_order, fetched, flushes, proxyVars, extVars>>

\* line 178: range() of something that is no integer raises TypeError.
RangeTypeError ==
    /\ pc = "for"
    /\ pairs_length.kind # "uint"
    /\ pc' = "Failed"
    /\ UNCHANGED <<execVars, phase, pairs_length, i, results, result_df, tasks,
                   npairs, ncalls, faults, done_order, fetched, flushes, proxyVars, extVars>>

\* lines 178-179: the next index is submitted.
ForBody ==
    /\ pc = "for"
    /\ pairs_length.kind = "uint"
    /\ RangeHas(i, pairs_length.index)
    /\ pc' = "add_task"
    /\ UNCHANGED <<execVars, phase, pairs_length, i, results, result_df, tasks,
                   npairs, ncalls, faults, done_order, fetched, flushes, proxyVars, extVars>>

\* line 183: the loop is over, the final process_tasks() is called.
ForExit ==
    /\ pc = "for"
    /\ pairs_length.kind = "uint"
    /\ ~RangeHas(i, pairs_length.index)
    /\ pc' = "process"
    /\ phase' = "final"
    /\ UNCHANGED <<execVars, pairs_length, i, results, result_df, tasks,
                   npairs, ncalls, faults, done_order, fetched, flushes, proxyVars, extVars>>

\* lines 180-182: what add_task returned is appended, if anything.
LoopAppend ==
    /\ pc = "returned"
    /\ phase = "loop"
    /\ result_df' = IF Truthy(results) THEN AppendDf(result_df, results.items)
                    ELSE result_df
    /\ i' = NextIndex(i)
    /\ pc' = "for"
    /\ UNCHANGED <<execVars, phase, pairs_length, results, tasks,
                   npairs, ncalls, faults, done_order, fetched, flushes, proxyVars, extVars>>

\* lines 184-185: what the final process_tasks returned is appended, if anything.
FinalAppend ==
    /\ pc = "returned"
    /\ phase = "final"
    /\ result_df' = IF Truthy(results) THEN AppendDf(result_df, results.items)
                    ELSE result_df
    /\ pc' = "Complete"
    /\ UNCHANGED <<execVars, phase, pairs_length, i, results, tasks,
                   npairs, ncalls, faults, done_order, fetched, flushes, proxyVars, extVars>>

(* ------------------------------ Spec ---------------------------------- *)
ProxyIdle ==
    /\ world = [f \in {} |-> "ok"]
    /\ trial = 0
    /\ last = [fn |-> "", via |-> "", outcome |-> "ok", raised |-> FALSE, value |-> None,
               failures |-> 0, sentinels |-> 0]

ExtIdle ==
    /\ thr = <<>>
    /\ started = <<>>
    /\ overlap = FALSE
    /\ sched = "cooperative"

Init ==
    /\ limit \in 1..MaxLimit
    /\ func = <<>> /\ args = <<>> /\ kwargs = <<>>
    /\ pc = "start" /\ phase = "loop"
    /\ pairs_length = None /\ i = 0
    /\ results = NoneResult
    /\ result_df = <<>>
    /\ tasks = <<>>
    /\ npairs \in 0..MaxPairs
    /\ ncalls = 0
    /\ faults = {}
    /\ done_order = <<>>
    /\ fetched = {}
    /\ flushes = <<>>
    /\ ProxyIdle
    /\ ExtIdle

TaskNext ==
    \/ \E t \in 1..MaxLimit + 1, o \in Outcomes, b \in {"ok", "raise"} : TaskStart(t, o, b)
    \/ \E t \in 1..MaxLimit + 1, k \in 1..3, o \in Outcomes : PairInfoCall(t, k, o)
    \/ \E t \in 1..MaxLimit + 1 : PairInfoReturn(t)
    \/ \E t \in 1..MaxLimit + 1, k \in 1..2, o \in Outcomes, b \in {"ok", "raise"} :
            TokenInfoCall(t, k, o, b)
    \/ \E t \in 1..MaxLimit + 1 : TaskReturn(t)

Next ==
    \/ \E o \in Outcomes : AllPairsLength(o)
    \/ RangeTypeError
    \/ ForBody
    \/ ForExit
    \/ AddTaskAppend
    \/ AddTaskCheck
    \/ ProcessTasksEmpty
    \/ ProcessTasksStart
    \/ TaskNext
    \/ GatherReturn
    \/ GatherRaise
    \/ LoopAppend
    \/ FinalAppend

Spec == Init /\ [][Next]_vars

(* ------------------------------ SpecSingle ---------------------------- *)
\* line 140: asyncio.run(async_get_pair_by_index(...)) returns the record.
SingleReturn ==
    /\ pc = "single"
    /\ tasks[1].pc = "done"
    /\ pc' = "Complete"
    /\ UNCHANGED <<execVars, phase, pairs_length, i, results, result_df, tasks,
                   npairs, ncalls, faults, done_order, fetched, flushes, proxyVars, extVars>>

\* line 140: the coroutine's exception leaves asyncio.run.
SingleRaise ==
    /\ pc = "single"
    /\ tasks[1].pc = "raised"
    /\ pc' = "Failed"
    /\ UNCHANGED <<execVars, phase, pairs_length, i, results, result_df, tasks,
                   npairs, ncalls, faults, done_order, fetched, flushes, proxyVars, extVars>>

InitSingle ==
    /\ limit = 1
    /\ func = <<>> /\ args = <<>> /\ kwargs = <<>>
    /\ pc = "single" /\ phase = "loop"
    /\ pairs_length = None /\ i = 0
    /\ results = NoneResult
    /\ result_df = <<>>
    /\ \E fc \in {NoHandle, ETHContractFunctions(FactoryAddress, "pair_factory")},
          u \in 0..MaxPairs - 1,
          fa \in {None, FactoryAddress} :
            tasks = <<NewTask("async_get_pair_by_index", <<fc, u, fa>>, <<>>)>>
    /\ npairs = MaxPairs
    /\ ncalls = 0
    /\ faults = {}
    /\ done_order = <<>>
    /\ fetched = {}
    /\ flushes = <<>>
    /\ ProxyIdle
    /\ ExtIdle

NextSingle ==
    \/ TaskConfigError(1)
    \/ TaskNext
    \/ SingleReturn
    \/ SingleRaise

SpecSingle == InitSingle /\ [][NextSingle]_vars

(* ------------------------------ SpecProxy ----------------------------- *)
ProxyFns == {"allPairsLength", "allPairs", "name", "token0", "getReserves"}
ProxyAddress == Val("pair", 0, 0)

\* One invocation of the handle; world says what the client does for each
\* function name, the same at every trial.
ProxyStep(fn, via) ==
    /\ pc = "proxy"
    /\ trial < MaxTrials
    /\ LET o == world.behaviour[fn]
           r == Invoke(world.abi, fn, o, RemoteValue(ProxyAddress, fn, 0, npairs))
       IN /\ last' = [fn |-> fn, via |-> via, outcome |-> o,
                     raised |-> r.raised, value |-> r.value,
                     failures |-> last.failures +
                         (IF fn \in Abi(world.abi) /\ o = "Web3Exception" THEN 1 ELSE 0),
                     sentinels |-> last.sentinels +
                         (IF ~r.raised /\ r.value = NotFound THEN 1 ELSE 0)]
          /\ ncalls' = IF fn \in Abi(world.abi) THEN ncalls + 1 ELSE ncalls
    /\ trial' = trial + 1
    /\ UNCHANGED <<execVars, pc, phase, pairs_length, i, results, result_df, tasks,
                   npairs, faults, done_order, fetched, flushes, world, extVars>>

\* lines 41-45: handle(function_name, *args)
ProxyCall(fn) == ProxyStep(fn, "call")

\* lines 47-48: handle.function_name(*args), the lambda calls self(function_name, *args)
ProxyGetattrCall(fn) == ProxyStep(fn, "getattr")

InitProxy ==
    /\ limit = 1
    /\ func = <<>> /\ args = <<>> /\ kwargs = <<>>
    /\ pc = "proxy" /\ phase = "loop"
    /\ pairs_length = None /\ i = 0
    /\ results = NoneResult
    /\ result_df = <<>>
    /\ tasks = <<>>
    /\ npairs = MaxPairs
    /\ ncalls = 0
    /\ faults = {}
    /\ done_order = <<>>
    /\ fetched = {}
    /\ flushes = <<>>
    /\ \E a \in {"pair_factory", "pair", "token"}, bh \in [ProxyFns -> Outcomes] :
            world = [abi |-> a, behaviour |-> bh]
    /\ trial = 0
    /\ last = [fn |-> "", via |-> "", outcome |-> "ok", raised |-> FALSE, value |-> None,
               failures |-> 0, sentinels |-> 0]
    /\ ExtIdle

NextProxy ==
    \/ \E fn \in ProxyFns : ProxyCall(fn)
    \/ \E fn \in ProxyFns : ProxyGetattrCall(fn)

SpecProxy == InitProxy /\ [][NextProxy]_vars

(* ------------------------------ SpecLive ------------------------------ *)
\* The run of Spec, where a remote call may also never return: nothing in
\* the source sets a timeout or cancels a call (line 42).
IsHung ==
    \/ pc = "hung"
    \/ \E t \in 1..Len(tasks) :
        \/ tasks[t].pc = "hung"
        \/ \E k \in 1..3 : tasks[t].p2[k] = Hung
        \/ \E k \in 1..2 : tasks[t].p3[k] = Hung

\* line 177: allPairsLength() does not return
AllPairsLengthHangs ==
    /\ pc = "start"
    /\ pc' = "hung"
    /\ ncalls' = ncalls + 1
    /\ UNCHANGED <<execVars, phase, pairs_length, i, results, result_df, tasks, npairs,
                   faults, done_order, fetched, flushes, proxyVars, extVars>>

\* line 154: allPairs(uint) does not return
AllPairsHangs(t) ==
    /\ pc = "gather" /\ ~IsHung
    /\ t \in 1..Len(tasks)
    /\ tasks[t].pc = "new"
    /\ tasks' = [tasks EXCEPT ![t].pc = "hung", ![t].pair_address = Hung]
    /\ ncalls' = ncalls + 1
    /\ UNCHANGED <<execVars, pc, phase, pairs_length, i, results, result_df, npairs,
                   faults, done_order, fetched, flushes, proxyVars, extVars>>

\* lines 131-132: one of name(), token0(), token1() does not return
PairInfoHangs(t, k) ==
    /\ pc = "gather" /\ ~IsHung
    /\ t \in 1..Len(tasks)
    /\ tasks[t].pc = "pair_info"
    /\ k \in 1..3
    /\ tasks[t].p2[k] = Pending
    /\ tasks' = [tasks EXCEPT ![t].p2[k] = Hung]
    /\ ncalls' = ncalls + 1
    /\ UNCHANGED <<execVars, pc, phase, pairs_length, i, results, result_df, npairs,
                   faults, done_order, fetched, flushes, proxyVars, extVars>>

\* lines 156-157, 124: the name() call of a token does not return
TokenInfoHangs(t, k) ==
    /\ pc = "gather" /\ ~IsHung
    /\ t \in 1..Len(tasks)
    /\ tasks[t].pc = "token_info"
    /\ k \in 1..2
    /\ tasks[t].p3[k] = Pending
    /\ tasks' = [tasks EXCEPT ![t].p3[k] = Hung]
    /\ ncalls' = ncalls + 1
    /\ UNCHANGED <<execVars, pc, phase, pairs_length, i, results, result_df, npairs,
                   faults, done_order, fetched, flushes, proxyVars, extVars>>

Hangs ==
    \/ AllPairsLengthHangs
    \/ \E t \in 1..MaxLimit + 1 : AllPairsHangs(t)
    \/ \E t \in 1..MaxLimit + 1, k \in 1..3 : PairInfoHangs(t, k)
    \/ \E t \in 1..MaxLimit + 1, k \in 1..2 : TokenInfoHangs(t, k)

NextLive == Next \/ Hangs

\* The event loop goes on running whatever can run; that a call hangs is
\* never required.
SpecLive == Init /\ [][NextLive]_vars /\ WF_vars(Next)

(* ------------------- callers of one AsyncBatchProcessor --------------- *)
\* add_task and process_tasks statement by statement, for callers that share
\* one executor. A caller is at a line of the source (pc), inside the call
\* it made (call), with process_tasks' locals n (the len taken at line 27),
\* k (the loop index) and batch (the list tasks).
\* The j-th submission of caller c passes the function Val("func", c, j),
\* the positional arguments Val("args", c, j) and the keyword arguments
\* Val("kwargs", c, j).
Caller(calls) ==
    [pc |-> "idle", call |-> "", j |-> 0, left |-> calls, n |-> 0, k |-> 0, batch |-> <<>>]

\* Where control may pass to another caller: anywhere for preemptive
\* threads; for coroutines only outside a call or at the await of line 34.
CanRun(c) ==
    \/ sched = "preemptive"
    \/ \A d \in 1..Len(thr) : d # c => thr[d].pc \in {"idle", "l34"}

\* A mutant: the argument list is put at the head of the list.
QueueArgsFront(a, x) == <<x>> \o a

\* line 17: self.args.append([*args])
QueueArgs(a, x) == Append(a, x)

\* A mutant: the loop stops one entry early.
BatchRangeShort(k, n) == k < n - 1

\* line 27: for i in range(len(self.func)), k entries done so far
BatchRangeHas(k, n) == k < n

\* A mutant: the list is left as it is.
Kept(q) == q

\* lines 30-32: self.func = [], self.args = [], self.kwargs = []
Cleared(q) == <<>>

CallerFrame == <<limit, pc, phase, pairs_length, i, results, result_df, tasks, npairs,
                 ncalls, faults, done_order, fetched, flushes, proxyVars, sched>>

Goto(c, l) == thr' = [thr EXCEPT ![c].pc = l]

\* line 15-16: add_task is entered, self.func.append(func)
CallAddTask(c) ==
    /\ c \in 1..Len(thr) /\ thr[c].pc = "idle" /\ thr[c].left > 0 /\ CanRun(c)
    /\ func' = Append(func, Val("func", c, thr[c].j + 1))
    /\ thr' = [thr EXCEPT ![c].pc = "l17", ![c].call = "add_task",
                          ![c].j = @ + 1, ![c].left = @ - 1]
    /\ overlap' = (overlap \/ \E d \in 1..Len(thr) : d # c /\ thr[d].pc # "idle")
    /\ UNCHANGED <<args, kwargs, started, CallerFrame>>

\* line 17
AddTaskArgs(c) ==
    /\ c \in 1..Len(thr) /\ thr[c].pc = "l17" /\ CanRun(c)
    /\ args' = QueueArgs(args, Val("args", c, thr[c].j))
    /\ Goto(c, "l18")
    /\ UNCHANGED <<func, kwargs, started, overlap, CallerFrame>>

\* line 18
AddTaskKwargs(c) ==
    /\ c \in 1..Len(thr) /\ thr[c].pc = "l18" /\ CanRun(c)
    /\ kwargs' = Append(kwargs, Val("kwargs", c, thr[c].j))
    /\ Goto(c, "l20")
    /\ UNCHANGED <<func, args, started, overlap, CallerFrame>>

\* lines 20-21: flush when the limit is reached, else return None
AddTaskLimit(c) ==
    /\ c \in 1..Len(thr) /\ thr[c].pc = "l20" /\ CanRun(c)
    /\ Goto(c, IF ShouldFlush(Len(func), limit) THEN "l24" ELSE "idle")
    /\ UNCHANGED <<func, args, kwargs, started, overlap, CallerFrame>>

\* line 23: process_tasks called by the caller itself (explicit flush)
CallProcessTasks(c) ==
    /\ c \in 1..Len(thr) /\ thr[c].pc = "idle" /\ thr[c].left > 0 /\ CanRun(c)
    /\ thr' = [thr EXCEPT ![c].pc = "l24", ![c].call = "process_tasks", ![c].left = @ - 1]
    /\ overlap' = (overlap \/ \E d \in 1..Len(thr) : d # c /\ thr[d].pc # "idle")
    /\ UNCHANGED <<func, args, kwargs, started, CallerFrame>>

\* lines 24-25: if not self.func: return
ProcessEmptyCheck(c) ==
    /\ c \in 1..Len(thr) /\ thr[c].pc = "l24" /\ CanRun(c)
    /\ Goto(c, IF func = <<>> THEN "idle" ELSE "l26")
    /\ UNCHANGED <<func, args, kwargs, started, overlap, CallerFrame>>

\* lines 26-27: tasks = [], range(len(self.func)) is built once
ProcessRange(c) ==
    /\ c \in 1..Len(thr) /\ thr[c].pc = "l26" /\ CanRun(c)
    /\ thr' = [thr EXCEPT ![c].pc = "l28", ![c].n = Len(func), ![c].k = 0, ![c].batch = <<>>]
    /\ UNCHANGED <<func, args, kwargs, started, overlap, CallerFrame>>

\* lines 27-28: one turn of the loop; an index past the end of a list
\* raises IndexError and ends the caller
ProcessLoop(c) ==
    /\ c \in 1..Len(thr) /\ thr[c].pc = "l28" /\ CanRun(c)
    /\ LET k == thr[c].k + 1 IN
       thr' = IF ~BatchRangeHas(thr[c].k, thr[c].n) THEN [thr EXCEPT ![c].pc = "l30"]
              ELSE IF k > Len(func) \/ k > Len(args) \/ k > Len(kwargs)
                   THEN [thr EXCEPT ![c].pc = "crashed"]
              ELSE [thr EXCEPT ![c].k = k,
                               ![c].batch = Append(@, NewTask(func[k], args[k], kwargs[k]))]
    /\ UNCHANGED <<func, args, kwargs, started, overlap, CallerFrame>>

\* line 30
ProcessClearFunc(c) ==
    /\ c \in 1..Len(thr) /\ thr[c].pc = "l30" /\ CanRun(c)
    /\ func' = Cleared(func)
    /\ Goto(c, "l31")
    /\ UNCHANGED <<args, kwargs, started, overlap, CallerFrame>>

\* line 31
ProcessClearArgs(c) ==
    /\ c \in 1..Len(thr) /\ thr[c].pc = "l31" /\ CanRun(c)
    /\ args' = Cleared(args)
    /\ Goto(c, "l32")
    /\ UNCHANGED <<func, kwargs, started, overlap, CallerFrame>>

\* line 32, then line 34 up to the await: the batch is handed to gather
ProcessClearKwargs(c) ==
    /\ c \in 1..Len(thr) /\ thr[c].pc = "l32" /\ CanRun(c)
    /\ kwargs' = Cleared(kwargs)
    /\ Goto(c, "l34")
    /\ UNCHANGED <<func, args, started, overlap, CallerFrame>>

\* line 34: gather has run every task of the batch and returns
ProcessGather(c) ==
    /\ c \in 1..Len(thr) /\ thr[c].pc = "l34" /\ CanRun(c)
    /\ started' = started \o thr[c].batch
    /\ thr' = [thr EXCEPT ![c].pc = "idle", ![c].batch = <<>>]
    /\ UNCHANGED <<func, args, kwargs, overlap, CallerFrame>>

InitCallers(s, ncallers, calls) ==
    /\ limit \in 1..MaxLimit
    /\ func = <<>> /\ args = <<>> /\ kwargs = <<>>
    /\ pc = "callers" /\ phase = "loop"
    /\ pairs_length = None /\ i = 0
    /\ results = NoneResult
    /\ result_df = <<>>
    /\ tasks = <<>>
    /\ npairs = 0
    /\ ncalls = 0
    /\ faults = {}
    /\ done_order = <<>>
    /\ fetched = {}
    /\ flushes = <<>>
    /\ ProxyIdle
    /\ thr = [c \in 1..ncallers |-> Caller(calls)]
    /\ started = <<>>
    /\ overlap = FALSE
    /\ sched = s

NextCallers ==
    \/ \E c \in 1..MaxCallers : CallAddTask(c)
    \/ \E c \in 1..MaxCallers : AddTaskArgs(c)
    \/ \E c \in 1..MaxCallers : AddTaskKwargs(c)
    \/ \E c \in 1..MaxCallers : AddTaskLimit(c)
    \/ \E c \in 1..MaxCallers : CallProcessTasks(c)
    \/ \E c \in 1..MaxCallers : ProcessEmptyCheck(c)
    \/ \E c \in 1..MaxCallers : ProcessRange(c)
    \/ \E c \in 1..MaxCallers : ProcessLoop(c)
    \/ \E c \in 1..MaxCallers : ProcessClearFunc(c)
    \/ \E c \in 1..MaxCallers : ProcessClearArgs(c)
    \/ \E c \in 1..MaxCallers : ProcessClearKwargs(c)
    \/ \E c \in 1..MaxCallers : ProcessGather(c)

\* Preemptive threads: any statement of any caller may come next.
InitThreads == InitCallers("preemptive", MaxCallers, MaxSubmits)
SpecThreads == InitThreads /\ [][NextCallers]_vars

\* Coroutines on one event loop.
InitCoop == InitCallers("cooperative", MaxCallers, MaxSubmits)
SpecCoop == InitCoop /\ [][NextCallers]_vars

\* One caller alone.
InitSeq == InitCallers("cooperative", 1, MaxSeqCalls)
SpecSeq == InitSeq /\ [][NextCallers]_vars

(* ====================================================================== *)
(* Properties                                                              *)
(* ====================================================================== *)
\* The record of a pair index when every call succeeds.
ExpectedRecord(j) ==
    PairRecord(Val("pair", j, 0), Val("pair_name", j, 0),
               Val("token", j, 0), Val("token_name", j, 0),
               Val("token", j, 1), Val("token_name", j, 1))

FlushReturned == pc = "returned" /\ ~results.is_none

\* C1: a flush returns its results in submission order, whatever the order
\* in which the tasks completed: position k of the returned list is the
\* result of the k-th task of the batch, which is the record fetched for the
\* k-th index submitted to it.
C1_ResultOrder ==
    FlushReturned =>
        /\ Len(results.items) = Len(tasks)
        /\ \A k \in 1..Len(tasks) :
            /\ results.items[k] = tasks[k].result
            /\ UintOf(tasks[k]) = UintOf(tasks[1]) + k - 1
            /\ [uint |-> UintOf(tasks[k]), rec |-> results.items[k]] \in fetched

\* The second task of a batch completed before the first, and the flush returned.
C1_Witness ==
    /\ FlushReturned
    /\ Len(done_order) = 2
    /\ done_order[1] = 2
    /\ results.items[1] = ExpectedRecord(UintOf(tasks[1]))
    /\ results.items[2] = ExpectedRecord(UintOf(tasks[1]) + 1)

\* C2: a completed run leaves exactly N rows, row k being the record fetched
\* for pair index k-1; with N = 3 and limit 2 there is one auto-flush of 2
\* and one final flush of 1.
C2_TableInIndexOrder ==
    pc = "Complete" =>
        /\ pairs_length = Val("uint", npairs, 0)
        /\ Len(result_df) = npairs
        /\ \A k \in 1..Len(result_df) :
            [uint |-> k - 1, rec |-> result_df[k]] \in fetched
        /\ (npairs = 3 /\ limit = 2) =>
            flushes = <<[size |-> 2, phase |-> "loop"], [size |-> 1, phase |-> "final"]>>

C2_Witness ==
    /\ pc = "Complete"
    /\ npairs = 3
    /\ limit = 2
    /\ result_df = <<ExpectedRecord(0), ExpectedRecord(1), ExpectedRecord(2)>>

\* The process_tasks calls that found tasks to run.
ExecFlushes == SelectSeq(flushes, LAMBDA f : f.size > 0)
CeilDiv(a, b) == (a + b - 1) \div b

\* C3: K tasks submitted one at a time and one final flush give ceil(K / L)
\* flushes that run tasks; every auto-flush runs exactly L tasks and the
\* final flush the remaining K mod L.
C3_FlushCount ==
    /\ \A k \in 1..Len(flushes) : flushes[k].phase = "loop" => flushes[k].size = limit
    /\ pc = "Complete" =>
        /\ Len(ExecFlushes) = CeilDiv(npairs, limit)
        /\ Len(SelectSeq(flushes, LAMBDA f : f.phase = "loop")) = npairs \div limit
        /\ Len(SelectSeq(flushes, LAMBDA f : f.phase = "final")) = 1
        /\ flushes[Len(flushes)] = [size |-> npairs % limit, phase |-> "final"]

C3_Witness ==
    /\ pc = "Complete"
    /\ npairs = 3
    /\ limit = 2
    /\ Len(ExecFlushes) = 2

\* C4: the pending queue never holds more than limit tasks; it holds limit
\* tasks only inside the add_task that appended the last of them, and at
\* most limit - 1 whenever add_task or process_tasks has returned.
C4_QueueBound ==
    /\ Len(func) <= limit
    /\ Len(args) = Len(func)
    /\ Len(kwargs) = Len(func)
    /\ Len(func) = limit => (phase = "loop" /\ pc \in {"add_check", "process"})
    /\ pc \notin {"add_check", "process"} => Len(func) <= limit - 1

\* The queue is full inside add_task, with more than one task queued.
C4_Witness ==
    /\ pc = "add_check"
    /\ Len(func) = limit
    /\ limit = 2

\* C5: an invocation of the handle whose client call fails with the remote
\* call error (Web3Exception) does not raise and returns "NotFound", at
\* every repetition; one whose client call succeeds returns the client's
\* value unchanged.
C5_FailureDegrades ==
    /\ last.sentinels = last.failures
    /\ (trial > 0 /\ last.fn \in Abi(world.abi)) =>
        /\ last.outcome = "Web3Exception" => (~last.raised /\ last.value = NotFound)
        /\ last.outcome = "ok" =>
            (~last.raised /\ last.value = RemoteValue(ProxyAddress, last.fn, 0, npairs))

\* The same failing call was repeated MaxTrials times, the last time through
\* attribute access, and gave the sentinel each time.
C5_Witness ==
    /\ trial = MaxTrials
    /\ last.failures = MaxTrials
    /\ last.sentinels = MaxTrials
    /\ last.via = "getattr"
    /\ ~last.raised
    /\ last.value = NotFound

RemoteFailure(f) == f.kind = "Web3Exception"

\* C6 as claimed: a remote failure of allPairsLength() or allPairs(i) is not
\* turned into the sentinel but propagates: after a failed allPairsLength()
\* the run has failed, after a failed allPairs(i) its task has raised, and
\* no task or record carries pair_address "NotFound".
C6_Original ==
    /\ \A f \in faults :
        (RemoteFailure(f) /\ f.site = "allPairsLength") =>
            (pc = "Failed" /\ pairs_length # NotFound)
    /\ \A t \in 1..Len(tasks) : tasks[t].pair_address # NotFound
    /\ \A r \in fetched : r.rec.pair_address # NotFound

\* C6 amended: a remote failure of allPairsLength() or allPairs(i) is turned
\* into "NotFound" by the handle like that of any other call.  After a
\* failed allPairsLength() the run fails at range() before a task is
\* submitted and the table stays empty; after a failed allPairs(i) the task
\* goes on with pair_address "NotFound", and a record produced for index i
\* has pair_address "NotFound".
C6_FactoryFailureDegraded ==
    \A f \in faults : RemoteFailure(f) =>
        /\ f.site = "allPairsLength" =>
            /\ pairs_length = NotFound
            /\ pc \in {"for", "Failed"}
            /\ result_df = <<>> /\ tasks = <<>> /\ func = <<>> /\ flushes = <<>>
        /\ f.site = "allPairs" =>
            /\ \A t \in 1..Len(tasks) :
                UintOf(tasks[t]) = f.uint => tasks[t].pair_address = NotFound
            /\ \A r \in fetched :
                r.uint = f.uint => r.rec.pair_address = NotFound

\* A run completed with a row whose pair_address is the sentinel of a
\* failed allPairs(i).
C6_Witness ==
    /\ pc = "Complete"
    /\ \E f \in faults :
        /\ RemoteFailure(f)
        /\ f.site = "allPairs"
        /\ result_df[f.uint + 1].pair_address = NotFound

SomeTaskRaised == \E t \in 1..Len(tasks) : tasks[t].pc = "raised"

\* C7: once a task of a batch has raised, the flush returns nothing: the
\* run is waiting in gather or has failed (it never completes), the table
\* holds exactly the rows of the earlier flushes, in order, and what the
\* caller last got back is from an earlier flush.
C7_FlushAborts ==
    SomeTaskRaised =>
        /\ pc \in {"gather", "Failed"}
        /\ Len(result_df) = UintOf(tasks[1])
        /\ \A k \in 1..Len(result_df) :
            [uint |-> k - 1, rec |-> result_df[k]] \in fetched
        /\ \A k \in 1..Len(results.items) :
            [uint |-> UintOf(tasks[1]) - Len(results.items) + k - 1,
             rec |-> results.items[k]] \in fetched

\* The run failed in its second batch, after the rows of the first were appended.
C7_Witness ==
    /\ pc = "Failed"
    /\ SomeTaskRaised
    /\ Len(result_df) = 2
    /\ limit = 2

\* C8: async_get_pair_by_index called with neither a factory handle nor a
\* factory address raises ValueError and no call reaches the client.
C8_ConfigErrorBeforeCalls ==
    (pc # "proxy" /\ Len(tasks) = 1
        /\ FactoryContractOf(tasks[1]) = NoHandle
        /\ FactoryAddressOf(tasks[1]) = None) =>
            /\ ncalls = 0
            /\ tasks[1].pc \in {"new", "raised"}
            /\ tasks[1].pc = "raised" => tasks[1].err = "ValueError"
            /\ pc \in {"single", "Failed"}

C8_Witness ==
    /\ pc = "Failed"
    /\ tasks[1].err = "ValueError"
    /\ FactoryContractOf(tasks[1]) = NoHandle
    /\ FactoryAddressOf(tasks[1]) = None
    /\ ncalls = 0

EmptyFlushReturned ==
    /\ pc = "returned"
    /\ Len(flushes) > 0
    /\ flushes[Len(flushes)].size = 0

\* C9 as claimed: process_tasks on an empty queue returns an empty sequence.
C9_Original == EmptyFlushReturned => results = ListResult(<<>>)

\* C9 amended: process_tasks on an empty queue returns None, not a sequence,
\* and does nothing else: no task is started, no call is made, and the
\* queue, the limit and the table are left as they were.
C9_EmptyFlushReturnsNone ==
    [][(pc = "process" /\ Len(func) = 0) =>
        /\ results' = NoneResult
        /\ pc' = "returned"
        /\ UNCHANGED <<limit, func, args, kwargs, tasks, ncalls, result_df, fetched>>]_vars

C9_Witness ==
    /\ EmptyFlushReturned
    /\ results = NoneResult
    /\ func = <<>>
    /\ npairs = 2

OnlyToken0Failed(j) ==
    faults = {[uint |-> j, site |-> "token0", kind |-> "Web3Exception"]}

C11_ZeroPairs ==
    (npairs = 0 /\ pairs_length = Val("uint", 0, 0)) =>
        /\ func = <<>> /\ args = <<>> /\ kwargs = <<>>
        /\ tasks = <<>>
        /\ fetched = {}
        /\ result_df = <<>>
        /\ results.is_none
        /\ ExecFlushes = <<>>
        /\ \A k \in 1..Len(flushes) : flushes[k] = [size |-> 0, phase |-> "final"]
        /\ ncalls = 1
        /\ pc \in {"for", "process", "returned", "Complete"}

C11_Witness ==
    /\ pc = "Complete"
    /\ npairs = 0
    /\ pairs_length = Val("uint", 0, 0)
    /\ result_df = <<>>
    /\ flushes = <<[size |-> 0, phase |-> "final"]>>

SixFields == {"pair_address", "pair_name", "token0_address", "token0_name",
              "token1_address", "token1_name"}

\* Six fields, each holding a value (no None, nothing still awaited).
WellFormed(r) ==
    /\ DOMAIN r = SixFields
    /\ \A f \in SixFields : r[f].kind \notin {"None", "pending", "raised", "hung"}

\* The field a call's result goes to.
SiteField(site) ==
    CASE site = "allPairs"    -> "pair_address"
      [] site = "name"        -> "pair_name"
      [] site = "token0"      -> "token0_address"
      [] site = "token1"      -> "token1_address"
      [] site = "token0_name" -> "token0_name"
      [] site = "token1_name" -> "token1_name"

\* Every record returned by async_get_pair_by_index, every record a flush
\* returns and every row of the table has exactly the six fields, all
\* non-null, and the field of a failed call holds "NotFound".
SixFieldsEverywhere ==
    /\ \A r \in fetched :
        /\ WellFormed(r.rec)
        /\ \A f \in faults :
            (RemoteFailure(f) /\ f.uint = r.uint) => r.rec[SiteField(f.site)] = NotFound
    /\ \A k \in 1..Len(result_df) : WellFormed(result_df[k])
    /\ FlushReturned => \A k \in 1..Len(results.items) : WellFormed(results.items[k])

\* C12: every PairRecord and every row has exactly the six fields, all
\* non-null; a failed sub-call puts "NotFound" in its field and the record
\* is still emitted: a run that has ended produced the record of every
\* index one of whose calls failed, with the sentinel in that call's field.
C12_RecordStillEmitted ==
    /\ SixFieldsEverywhere
    /\ pc \in {"Complete", "Failed"} =>
        \A f \in faults :
            (RemoteFailure(f) /\ f.uint >= 0) =>
                \E r \in fetched :
                    r.uint = f.uint /\ r.rec[SiteField(f.site)] = NotFound

IsValue(v) == v.kind \notin {"pending", "raised", "hung"}

\* C13: the three stages of one fetch are strictly sequential: no call on
\* the pair handle is made before allPairs(index) has returned, no
\* token-name call before name, token0 and token1 have all returned, and the
\* record exists only after both token-name calls have returned.
C13_StageOrder ==
    \A t \in 1..Len(tasks) :
        LET tk == tasks[t] IN
        /\ tk.pc = "new" => tk.pair_address = None
        /\ tk.pc \in {"pair_info", "token_info", "done"} => IsValue(tk.pair_address) /\ tk.pair_address # None
        /\ (\E k \in 1..3 : tk.p2[k] # Pending) => (tk.pc # "new" /\ tk.pair_address # None)
        /\ (\E k \in 1..2 : tk.p3[k] # Pending) => \A k \in 1..3 : IsValue(tk.p2[k])
        /\ tk.pc \in {"token_info", "done"} => \A k \in 1..3 : IsValue(tk.p2[k])
        /\ tk.pc = "pair_info" => \A k \in 1..2 : tk.p3[k] = Pending
        /\ tk.result # NoRecord =>
            /\ tk.pc = "done"
            /\ \A k \in 1..2 : IsValue(tk.p3[k])
        /\ tk.pc = "done" => tk.result # NoRecord

\* Calls of one stage are under way together: one task has the name of
\* token0 but not yet that of token1, another has name() and token0()
\* but not yet token1().
C13_Witness ==
    /\ Len(tasks) = 2
    /\ tasks[1].pc = "token_info"
    /\ IsValue(tasks[1].p3[1])
    /\ tasks[1].p3[2] = Pending
    /\ tasks[2].pc = "pair_info"
    /\ IsValue(tasks[2].p2[1])
    /\ IsValue(tasks[2].p2[2])
    /\ tasks[2].p2[3] = Pending

InFlight(tk) == tk.pc \in {"pair_info", "token_info"}

\* C14: batches are separated by a barrier: while a task of the current
\* batch has not completed, the run waits in gather (or has failed), the
\* queue is empty and no further index is submitted; at most limit tasks
\* are in flight, all of them of one batch.
C14_Barrier ==
    /\ Cardinality({t \in 1..Len(tasks) : InFlight(tasks[t])}) <= limit
    /\ Len(tasks) <= limit
    /\ (\E t \in 1..Len(tasks) : tasks[t].pc # "done") =>
        /\ pc \in {"gather", "Failed"}
        /\ func = <<>>
    /\ \A t \in 1..Len(tasks) :
        /\ UintOf(tasks[t]) <= i
        /\ UintOf(tasks[t]) = UintOf(tasks[1]) + t - 1

\* Both tasks of a batch of two are in flight at once, and the queue is empty.
C14_Witness ==
    /\ pc = "gather"
    /\ limit = 2
    /\ Len(tasks) = 2
    /\ tasks[1].pc = "token_info"
    /\ tasks[2].pc = "pair_info"
    /\ func = <<>>

\* Position in Initialized, LengthResolved, Fetching(0), ..., Fetching(N-1),
\* Drained, Complete.
Rank ==
    IF pc = "start" THEN 0
    ELSE IF pc = "Complete" THEN 3 + npairs
    ELSE IF phase = "final" THEN 2 + npairs
    ELSE IF pc = "for" THEN 1 + i
    ELSE 2 + i

\* C15: a run goes through Initialized, LengthResolved, Fetching(0), ...,
\* Fetching(N-1), Drained, Complete in this order, one state at a time and
\* never back (a failing run stops on the way): allPairsLength() is called
\* once, before any submission; the index submitted is i and i goes up by
\* one; the final flush comes when all N indices have been submitted.
C15_StateSequence ==
    /\ [][pc \notin {"Complete", "Failed"}]_vars
    /\ [][pc' # "start"]_vars
    /\ [][pc' = "Failed" \/ Rank' \in {Rank, Rank + 1}]_vars
    /\ [][i' \in {i, i + 1}]_vars
    /\ [][Len(func') > Len(func) =>
            /\ pairs_length = Val("uint", npairs, 0)
            /\ func' = Append(func, "async_get_pair_by_index")
            /\ args'[Len(args')][2] = i
            /\ i < npairs]_vars
    /\ [][phase' = "final" => (i' = npairs /\ pairs_length' = Val("uint", npairs, 0))]_vars
    /\ [][phase = "final" => phase' = "final"]_vars
    /\ [][pc' = "Complete" => (phase = "final" /\ pc = "returned")]_vars

C15_Witness ==
    /\ pc = "Complete"
    /\ npairs = 3
    /\ i = 3
    /\ phase = "final"
    /\ Len(flushes) = 4

\* C17: the table is append-only: a step leaves it unchanged or extends it
\* at the end by the rows of the one flush that has just returned.
C17_AppendOnly ==
    [][\/ result_df' = result_df
       \/ /\ FlushReturned
          /\ Len(results.items) > 0
          /\ Len(result_df') = Len(result_df) + Len(results.items)
          /\ SubSeq(result_df', 1, Len(result_df)) = result_df
          /\ \A k \in 1..Len(results.items) :
                result_df'[Len(result_df) + k] = tasks[k].result]_vars

\* Two flushes were appended one after the other.
C17_Witness ==
    /\ npairs = 3
    /\ limit = 2
    /\ pc = "Complete"
    /\ Len(result_df) = 3
    /\ result_df[1] = ExpectedRecord(0)
    /\ result_df[3] = ExpectedRecord(2)

(* ------------------ properties of the shared executor ----------------- *)
\* The submission a queued value belongs to.
Sub(v) == <<v.index, v.slot>>

\* A task called with the function, the arguments and the keyword arguments
\* of one and the same submission.
OwnArguments(tk) ==
    /\ tk.fn.kind = "func" /\ tk.fargs.kind = "args" /\ tk.fkwargs.kind = "kwargs"
    /\ Sub(tk.fargs) = Sub(tk.fn)
    /\ Sub(tk.fkwargs) = Sub(tk.fn)

\* Submissions whose add_task has passed lines 16-18.
Submitted ==
    {id \in (1..Len(thr)) \X (1..MaxSeqCalls + 1) :
        /\ id[2] <= thr[id[1]].j
        /\ ~(id[2] = thr[id[1]].j /\ thr[id[1]].pc \in {"l17", "l18"})}

TimesQueued(id) == Cardinality({p \in 1..Len(func) : Sub(func[p]) = id})
TimesStarted(id) == Cardinality({p \in 1..Len(started) : Sub(started[p].fn) = id})
TimesInBatch(c, id) ==
    Cardinality({p \in 1..Len(thr[c].batch) : Sub(thr[c].batch[p].fn) = id})

RECURSIVE TimesInBatches(_, _)
TimesInBatches(c, id) ==
    IF c = 0 THEN 0 ELSE TimesInBatch(c, id) + TimesInBatches(c - 1, id)

EqualLength == Len(func) = Len(args) /\ Len(args) = Len(kwargs)

\* Position p of the three lists belongs to one submission, wherever the
\* lists are long enough to have a position p.
Aligned ==
    /\ \A p \in 1..Len(func) :
        /\ p <= Len(args) => Sub(args[p]) = Sub(func[p])
        /\ p <= Len(kwargs) => Sub(kwargs[p]) = Sub(func[p])
    /\ \A p \in 1..Len(args) : p <= Len(kwargs) => Sub(kwargs[p]) = Sub(args[p])

Quiescent == \A c \in 1..Len(thr) : thr[c].pc \in {"idle", "crashed"}

WrongArguments == \E p \in 1..Len(started) : ~OwnArguments(started[p])
RunTwice == \E id \in Submitted : TimesStarted(id) > 1
Lost == Quiescent /\ \E id \in Submitted : TimesStarted(id) = 0 /\ TimesQueued(id) = 0

Corrupted ==
    \/ Quiescent /\ ~EqualLength
    \/ ~Aligned
    \/ WrongArguments
    \/ RunTwice
    \/ Lost

\* C16: with preemptive threads calling add_task without synchronisation
\* the three lists can be corrupted (lengths differ, or one position holds
\* parts of different submissions), and a task is run with another task's
\* arguments, lost, or run twice. Corruption comes from the interleaving
\* only: it is reached (C16_Witness), and never while the calls have
\* followed one another without overlap.
C16_CorruptionByInterleaving == Corrupted => overlap

\* Only add_task was ever called.
OnlyAddTask == \A c \in 1..Len(thr) : thr[c].j + thr[c].left = MaxSubmits

EveryCallerIdle == \A c \in 1..Len(thr) : thr[c].pc = "idle"

\* All threads have returned from calls of add_task only: a task was run
\* with the arguments of another submission, a task was run twice, and a
\* task is lost (neither run nor queued).
C16_Witness ==
    /\ sched = "preemptive"
    /\ OnlyAddTask
    /\ EveryCallerIdle
    /\ WrongArguments
    /\ RunTwice
    /\ Lost

ExplicitFlushReturns(c) ==
    /\ thr[c].call = "process_tasks"
    /\ thr[c].pc # "idle"
    /\ thr'[c].pc = "idle"

\* C18: one caller, any sequence of add_task and process_tasks calls, no
\* task failing: whatever was started was called with the function and the
\* arguments of one submission, nothing is started twice, between calls
\* every submission is either queued once (aligned) or was started once,
\* and when an explicit process_tasks returns the lists are empty and
\* every submission so far was started exactly once.
C18_ExactlyOnce ==
    /\ [](\A p \in 1..Len(started) : OwnArguments(started[p]))
    /\ [](\A id \in Submitted : TimesStarted(id) <= 1)
    /\ []((\A c \in 1..Len(thr) : thr[c].pc = "idle") =>
            /\ EqualLength /\ Aligned
            /\ \A id \in Submitted : TimesQueued(id) + TimesStarted(id) = 1)
    /\ [][\A c \in 1..Len(thr) : ExplicitFlushReturns(c) =>
            /\ func' = <<>> /\ args' = <<>> /\ kwargs' = <<>>
            /\ \A id \in Submitted : TimesStarted(id)' = 1]_vars

\* Three submissions with limit 2: two were started by the flush add_task
\* made, the third by the explicit flush that has just returned.
C18_Witness ==
    /\ Len(thr) = 1
    /\ limit = 2
    /\ thr[1].pc = "idle" /\ thr[1].call = "process_tasks"
    /\ thr[1].j = 3
    /\ func = <<>> /\ args = <<>> /\ kwargs = <<>>
    /\ Len(started) = 3
    /\ \A p \in 1..3 : OwnArguments(started[p]) /\ Sub(started[p].fn) = <<1, p>>

AtSwitchPoint == \A c \in 1..Len(thr) : thr[c].pc \in {"idle", "l34"}

\* C19: coroutines on one event loop, control passing only at await
\* points: whenever control can pass, the three lists have equal length
\* and are aligned, and every submission is in exactly one place (queued,
\* in one batch being awaited, or started) with its own arguments; a batch
\* being awaited does not change, and when its gather returns exactly that
\* batch was started while what was submitted meanwhile stays queued.
C19_CooperativeSafe ==
    /\ [](AtSwitchPoint =>
            /\ EqualLength /\ Aligned
            /\ \A c \in 1..Len(thr) : \A p \in 1..Len(thr[c].batch) : OwnArguments(thr[c].batch[p])
            /\ \A p \in 1..Len(started) : OwnArguments(started[p])
            /\ \A id \in Submitted :
                TimesQueued(id) + TimesInBatches(Len(thr), id) + TimesStarted(id) = 1)
    /\ [][\A c \in 1..Len(thr) :
            /\ (thr[c].pc = "l34" /\ thr'[c].pc = "l34") => thr'[c].batch = thr[c].batch
            /\ (thr[c].pc = "l34" /\ thr'[c].pc = "idle") =>
                /\ started' = started \o thr[c].batch
                /\ func' = func /\ args' = args /\ kwargs' = kwargs]_vars

\* Caller 1 awaits its batch of two; caller 2 submitted meanwhile and its
\* task is queued, not in that batch.
C19_Witness ==
    /\ sched = "cooperative"
    /\ limit = 2
    /\ thr[1].pc = "l34"
    /\ Len(thr[1].batch) = 2
    /\ thr[2].pc = "idle"
    /\ func = <<Val("func", 2, 1)>>
    /\ args = <<Val("args", 2, 1)>>
    /\ kwargs = <<Val("kwargs", 2, 1)>>
    /\ TimesInBatch(1, <<2, 1>>) = 0

(* --------------------------- termination ------------------------------ *)
Terminated == pc \in {"Complete", "Failed"}

\* The first index of the batch that is with gather.
BatchStart == IF tasks = <<>> THEN 0 ELSE UintOf(tasks[1])

\* C20: if every remote call returns (a value or a failure) the run
\* eventually ends, Complete or failed; once a call never returns the run
\* never becomes Complete, and the table keeps exactly the rows of the
\* batches before the one that call belongs to, for ever.
C20_Termination ==
    /\ <>(Terminated \/ IsHung)
    /\ [](IsHung => (pc # "Complete" /\ Len(result_df) = BatchStart))
    /\ [][IsHung => (IsHung' /\ result_df' = result_df)]_vars

\* The third of three fetches (limit 1) waits for a token name that never
\* comes: two rows are in the table and the run waits in gather.
C20_Witness ==
    /\ IsHung
    /\ pc = "gather"
    /\ limit = 1
    /\ npairs = 3
    /\ Len(result_df) = 2
    /\ UintOf(tasks[1]) = 2
    /\ tasks[1].p3[1] = Hung

====
